---- MODULE Spec2Model ----
(***************************************************************************)
(* The stable-diffusion notebook: generate_images (the generation loop)    *)
(* and the upload cell (glob and upload loop), run cell by cell on one     *)
(* kernel over one filesystem.                                             *)
(*                                                                         *)
(* A path string is modelled by its split on "/": a sequence of            *)
(* components, each component a sequence of character tokens.  The empty   *)
(* component <<>> is the empty string, so "a//b" is <<a, <<>>, b>> and an  *)
(* absolute path starts with the empty component.                          *)
(***************************************************************************)
EXTENDS Integers, Sequences, FiniteSets, TLC

\* ------------------------------------------------------------------ bounds
MaxTotal == 4
MaxBatch == 2
MaxGenRuns == 1
MaxUploadRuns == 1
MaxGlob == 3
MaxReruns == 2
MaxUploadReruns == 2
MaxTrainRuns == 2
MaxDetectRuns == 2
MaxImages == 3

\* ------------------------------------------------------- program constants
DefaultNumImagesPerPrompt == 4
DefaultGuidanceScale == 8
CellGuidanceScale == 4
NumRetryUploads == 3

\* ------------------------------------------------------------ path strings
Front(s) == SubSeq(s, 1, Len(s) - 1)
Last(s) == s[Len(s)]

\* s + t on strings, in split form
Concat(s, t) == Front(s) \o << Last(s) \o Head(t) >> \o Tail(t)

\* the string starts with "/"
IsAbs(p) == Len(p) >= 2 /\ p[1] = <<>>

\* os.path.join(a, b)
PathJoin(a, b) ==
  IF IsAbs(b) THEN b
  ELSE IF Last(a) = <<>> THEN Front(a) \o b
  ELSE a \o b

RECURSIVE NonEmpty(_)
NonEmpty(p) ==
  IF p = <<>> THEN <<>>
  ELSE IF Head(p) = <<>> THEN NonEmpty(Tail(p))
  ELSE <<Head(p)>> \o NonEmpty(Tail(p))

\* the filesystem entry a path string names, seen from working directory wd
Key(wd, p) == NonEmpty(IF IsAbs(p) THEN p ELSE wd \o p)

RECURSIVE RStripSlash(_)
RStripSlash(p) ==
  IF Len(p) > 1 /\ Last(p) = <<>> /\ (\E j \in 1..Len(p) : p[j] # <<>>)
  THEN RStripSlash(Front(p))
  ELSE p

\* os.path.split(p): <<head, tail>>
PathSplit(p) ==
  IF Len(p) = 1 THEN << << <<>> >>, p[1] >>
  ELSE << RStripSlash(Front(p)), Last(p) >>

Digit(d) == << "0", "1", "2", "3", "4", "5", "6", "7", "8", "9" >>[d + 1]

\* str(k) of a non-negative integer
RECURSIVE Str(_)
Str(k) == IF k < 10 THEN << Digit(k) >> ELSE Str(k \div 10) \o << Digit(k % 10) >>

EndsWith(name, suffix) ==
  /\ Len(name) >= Len(suffix)
  /\ SubSeq(name, Len(name) - Len(suffix) + 1, Len(name)) = suffix

\* mutant: dot files matched like any other
IsHiddenNever(name) == FALSE

\* glob._ishidden
IsHidden(name) == Len(name) > 0 /\ name[1] = "."

\* fnmatch of a pattern "*" + suffix
FnMatch(name, pattern) ==
  IF Len(pattern) > 0 /\ pattern[1] = "*"
  THEN EndsWith(name, Tail(pattern))
  ELSE name = pattern

\* -------------------------------------------------------------- filesystem
\* fs maps the key of each existing entry to [kind, data]; data of a file is
\* <<i, idx>> for the image of iteration i, position idx, Partial for a file
\* a failed save left behind, Orig for anything else.
Orig == << >>
Partial == << -1 >>
DirEntry == [kind |-> "dir", data |-> Orig]
FileEntry(d) == [kind |-> "file", data |-> d]

Exists(f, k) == k \in DOMAIN f
IsDir(f, k) == k \in DOMAIN f /\ f[k].kind = "dir"
Parent(k) == Front(k)

Put(f, k, e) == [x \in DOMAIN f \cup {k} |-> IF x = k THEN e ELSE f[x]]

Prefixes(k) == { SubSeq(k, 1, n) : n \in 1..Len(k) }

\* mutant: exist_ok left False
MakeDirsRaisesIfExists(f, k) ==
  Exists(f, k) \/ \E q \in Prefixes(k) : Exists(f, q) /\ ~IsDir(f, q)

\* os.makedirs(path, exist_ok=True) raises when a component is not a directory
MakeDirsRaises(f, k) == \E q \in Prefixes(k) : Exists(f, q) /\ ~IsDir(f, q)

\* mutant: an existing directory is emptied
MakeDirsEmptied(f, k) ==
  LET under == { x \in DOMAIN f : Len(x) > Len(k) /\ SubSeq(x, 1, Len(k)) = k }
  IN [x \in (DOMAIN f \ under) \cup Prefixes(k) |-> IF x \in DOMAIN f THEN f[x] ELSE DirEntry]

MakeDirs(f, k) ==
  [x \in DOMAIN f \cup Prefixes(k) |-> IF x \in DOMAIN f THEN f[x] ELSE DirEntry]

\* the names os.scandir lists in directory k (none when k is no directory)
ListDir(f, k) ==
  IF IsDir(f, k) THEN { Last(x) : x \in { y \in DOMAIN f : Len(y) > 0 /\ Parent(y) = k } }
  ELSE {}

\* glob.glob(pattern): the set of path strings matched; the order is the
\* listing's, chosen by the caller of this operator
GlobSet(f, wd, pattern) ==
  LET dirname == PathSplit(pattern)[1]
      basename == PathSplit(pattern)[2]
      names == { n \in ListDir(f, Key(wd, dirname)) :
                   /\ IsHidden(basename) \/ ~IsHidden(n)
                   /\ FnMatch(n, basename) }
  IN { PathJoin(dirname, << n >>) : n \in names }

Orderings(S) ==
  { s \in [1..Cardinality(S) -> S] : \A a, b \in 1..Cardinality(S) : a # b => s[a] # s[b] }

\* ------------------------------------------------------------------ inputs
Tok(w) == << << w >> >>
GeneratedImages == Tok("generated_images")
OtherOutputDir == << << "data" >>, << "out" >> >>
OutputDirs == { GeneratedImages, OtherOutputDir }
\* the notebook's own call, and a call of another prompt with the default scale
Callers == { [prompt |-> "aerial view of cattle", guidance_scale |-> CellGuidanceScale],
             [prompt |-> "aerial view of sheep", guidance_scale |-> DefaultGuidanceScale] }
WorkDirs == { << <<>>, << "studio" >> >> }

\* entries the default output directory may hold before the notebook runs
NotesTxt == << "notes", ".", "txt" >>
HiddenPng == << ".", "hidden", ".", "png" >>
CropsPng == << "crops", ".", "png" >>
DeepPng == << "deep", ".", "png" >>
ExtraNames == { NotesTxt, HiddenPng, CropsPng }

BaseFs(wd) == MakeDirs(<< >> :> DirEntry, Key(wd, << <<>> >>))

InitialFs(wd, mode, extras) ==
  LET out == Key(wd, GeneratedImages)
      base == BaseFs(wd)
      keys == { out \o << n >> : n \in extras }
             \cup (IF CropsPng \in extras THEN { out \o << CropsPng, DeepPng >> } ELSE {})
  IN CASE mode = "absent" -> base
       [] mode = "file" -> Put(base, out, FileEntry(Orig))
       [] OTHER ->
            [x \in DOMAIN base \cup { out } \cup keys |->
               IF x \in DOMAIN base THEN base[x]
               ELSE IF x = out \/ Last(x) = CropsPng THEN DirEntry
               ELSE FileEntry(Orig)]

\* ------------------------------------------------------------------- state
VARIABLES
  fs,             \* the filesystem
  cwd,            \* the kernel's working directory (a path string)
  HOME,           \* the notebook global HOME; Undefined before its cell ran
  pc,             \* where the running cell is; "idle" between cells
  args,           \* generate_images' parameters
  num_iterations, \* generate_images' local
  i,              \* generate_images' outer loop variable
  images,         \* images.images of the last pipeline call
  idx,            \* generate_images' inner loop variable
  image_name,     \* generate_images' local
  image_glob,     \* the notebook global image_glob
  pos,            \* position of the upload loop in image_glob
  inFlight,       \* external calls started and not yet returned
  lastCell,       \* the cell run last
  status,         \* its outcome: "running", "ok", or the call that raised
  pipelineCalls,  \* arguments of the pipeline calls of the last generate_images
  returned,       \* number of images each of them returned
  saves,          \* [name, image] of each completed save of the last generate_images
  displays,       \* file names displayed by the last generate_images
  uploads,        \* arguments of the upload calls of the last upload cell run
  printed,        \* progress lines of the last upload cell run
  fsAtCall,       \* the filesystem when the last cell started
  everSaved,      \* [dir, key]: output_dir argument and entry of every completed save
  genRuns,
  uploadRuns,
  genCalls,       \* arguments of the generate_images calls made so far, oldest first
  uploadLog,      \* image argument of every upload call of every upload cell run
  uploadsDone,    \* number of upload cell runs that ran to their end
  EXP_DIR,        \* the YOLOv7 notebook's global EXP_DIR
  lastDetect,     \* [weights, out]: arguments and run directory of the last detect.py run
  listed,         \* the list glob.glob returned, when the last cell was the display cell
  limit,          \* the YOLOv7 notebook's global limit
  shown,          \* file names it displayed, in order
  zipped,         \* entries the last export cell's zip commands archived
  trainRuns,
  detectRuns,
  dataset,        \* the YOLOv5 notebook's global dataset; Undefined before its cell ran
  num_classes,    \* its global num_classes
  writetemplate,  \* TRUE once the cell magic writetemplate is registered
  notebook,       \* the notebook this kernel runs
  defined,        \* names bound in the kernel's namespace, where cells run as wholes
  definedAtCall,  \* the same when the last cell started
  cellNo,         \* position in the notebook of the cell run last, 0 before any
  cursor,         \* k: cells 1..k ran once each, in this order, all without failure;
                  \* -1 once a cell ran out of this order or failed
  raisedAt        \* source line of the statement that raised NameError in it, 0 if none

vars == << fs, cwd, HOME, pc, args, num_iterations, i, images, idx, image_name,
           image_glob, pos, inFlight, lastCell, status, pipelineCalls, returned,
           saves, displays, uploads, printed, fsAtCall, everSaved, genRuns, uploadRuns,
           genCalls, uploadLog, uploadsDone, EXP_DIR, lastDetect, listed, limit, shown,
           zipped, trainRuns, detectRuns, dataset, num_classes, writetemplate,
           notebook, defined, definedAtCall, cellNo, cursor, raisedAt >>

Undefined == << >>

NoArgs == [prompt |-> "", num_images_to_generate |-> 0, num_images_per_prompt |-> 1,
           guidance_scale |-> 0, output_dir |-> GeneratedImages, display_images |-> FALSE]

\* a kernel that has run no cell yet
FreshKernel ==
  /\ HOME = Undefined
  /\ pc = "idle"
  /\ args = NoArgs
  /\ num_iterations = 0
  /\ i = 0
  /\ images = << >>
  /\ idx = 0
  /\ image_name = Undefined
  /\ image_glob = << >>
  /\ pos = 0
  /\ inFlight = << >>
  /\ lastCell = "none"
  /\ status = "ok"
  /\ pipelineCalls = << >>
  /\ returned = << >>
  /\ saves = << >>
  /\ displays = << >>
  /\ uploads = << >>
  /\ printed = << >>
  /\ fsAtCall = fs
  /\ everSaved = {}
  /\ genRuns = 0
  /\ uploadRuns = 0
  /\ genCalls = << >>
  /\ uploadLog = << >>
  /\ uploadsDone = 0
  /\ EXP_DIR = Undefined
  /\ lastDetect = Undefined
  /\ listed = << >>
  /\ limit = Undefined
  /\ shown = << >>
  /\ zipped = {}
  /\ trainRuns = 0
  /\ detectRuns = 0
  /\ dataset = Undefined
  /\ num_classes = Undefined
  /\ writetemplate = FALSE
  /\ defined = {}
  /\ definedAtCall = {}
  /\ cellNo = 0
  /\ cursor = 0
  /\ raisedAt = 0

Init ==
  /\ notebook = "diffusion"
  /\ cwd \in WorkDirs
  /\ \E mode \in { "absent", "file", "dir" } : \E extras \in { {}, ExtraNames } :
       /\ mode # "dir" => extras = {}
       /\ fs = InitialFs(cwd, mode, extras)
  /\ FreshKernel

genLocals == << num_iterations, i, images, idx, image_name >>
genLogs == << pipelineCalls, returned, saves, displays, everSaved >>
uploadState == << image_glob, pos, uploads, printed, uploadRuns >>
rerunLogs == << genCalls, uploadLog, uploadsDone >>
templateState == << dataset, num_classes, writetemplate >>
namespace == << notebook, defined, definedAtCall, cellNo, cursor, raisedAt >>
yoloState == << EXP_DIR, lastDetect, listed, limit, shown, zipped, trainRuns, detectRuns,
               templateState >>

\* a raise or a return ends the cell: the frame's locals are gone
EndCell(outcome) ==
  /\ pc' = "idle"
  /\ status' = outcome
  /\ inFlight' = << >>

DropLocals ==
  /\ num_iterations' = 0
  /\ i' = 0
  /\ images' = << >>
  /\ idx' = 0
  /\ image_name' = Undefined

\* -------------------------------------------------------- generate_images
\* mutant: the loop bound taken inclusive
NumIterationsInclusive(total, batch) == (total \div batch) + 1

NumIterations(total, batch) == total \div batch

PipelineArgs(a) ==
  [prompt |-> a.prompt, num_images_per_prompt |-> a.num_images_per_prompt,
   guidance_scale |-> a.guidance_scale]

\* mutant: the file index without the iteration's offset
ImageNameNoOffset(output_dir, it, batch, ix) ==
  Concat(output_dir, << <<>>, << "image_" >> \o Str(ix) \o << ".", "png" >> >>)

\* mutant: the file name without the output directory in front
ImageNameInCwd(output_dir, it, batch, ix) ==
  << << "image_" >> \o Str((it * batch) + ix) \o << ".", "png" >> >>

\* mutant: the file index counted from one
ImageNameOneBased(output_dir, it, batch, ix) ==
  Concat(output_dir, << <<>>, << "image_" >> \o Str((it * batch) + ix + 1) \o << ".", "png" >> >>)

\* f"{output_dir}/image_{(i*num_images_per_prompt)+idx}.png"
ImageName(output_dir, it, batch, ix) ==
  Concat(output_dir, << <<>>, << "image_" >> \o Str((it * batch) + ix) \o << ".", "png" >> >>)

\* the cell calling generate_images: the header's defaults, the two body lines
\* before the loop
CallGenerateImages(prompt, total, batch, guidance, output_dir, display_images) ==
  /\ pc = "idle"
  /\ genRuns' = genRuns + 1
  /\ lastCell' = "generate"
  /\ args' = [prompt |-> prompt, num_images_to_generate |-> total,
              num_images_per_prompt |-> batch, guidance_scale |-> guidance,
              output_dir |-> output_dir, display_images |-> display_images]
  /\ fsAtCall' = fs
  /\ pipelineCalls' = << >>
  /\ returned' = << >>
  /\ saves' = << >>
  /\ displays' = << >>
  /\ IF MakeDirsRaises(fs, Key(cwd, output_dir))
     THEN /\ EndCell("makedirs")
          /\ DropLocals
          /\ fs' = fs
     ELSE /\ fs' = MakeDirs(fs, Key(cwd, output_dir))
          /\ num_iterations' = NumIterations(total, batch)
          /\ i' = 0
          /\ pc' = "gen_loop"
          /\ status' = "running"
          /\ UNCHANGED << images, idx, image_name, inFlight >>
  /\ uploads' = << >>
  /\ printed' = << >>
  /\ UNCHANGED << cwd, HOME, everSaved, image_glob, pos, uploadRuns >>

\* mutant: the next pipeline call is issued while a save is still running
CanCallPipelineEager == pc \in { "gen_loop", "save" } /\ i < num_iterations

CanCallPipeline == pc = "gen_loop" /\ i < num_iterations

PipelineCall ==
  /\ CanCallPipeline
  /\ pipelineCalls' = Append(pipelineCalls, PipelineArgs(args))
  /\ inFlight' = Append(inFlight, "pipeline")
  /\ pc' = "pipeline"
  /\ UNCHANGED << fs, cwd, HOME, args, genLocals, lastCell, status, returned, saves,
                  displays, everSaved, fsAtCall, genRuns, uploadState >>

\* the pipeline is external: it returns n images, n not decided by this code
PipelineReturn(n) ==
  /\ pc = "pipeline"
  /\ images' = [x \in 1..n |-> << i, x - 1 >>]
  /\ returned' = Append(returned, n)
  /\ idx' = 0
  /\ inFlight' = Front(inFlight)
  /\ pc' = "gen_enum"
  /\ UNCHANGED << fs, cwd, HOME, args, num_iterations, i, image_name, lastCell, status,
                  pipelineCalls, saves, displays, everSaved, fsAtCall, genRuns, uploadState >>

PipelineRaise ==
  /\ pc = "pipeline"
  /\ EndCell("pipeline")
  /\ DropLocals
  /\ UNCHANGED << fs, cwd, HOME, args, lastCell, genLogs, fsAtCall, genRuns, uploadState >>

SaveCall ==
  /\ pc = "gen_enum"
  /\ idx < Len(images)
  /\ image_name' = ImageName(args.output_dir, i, args.num_images_per_prompt, idx)
  /\ inFlight' = Append(inFlight, "save")
  /\ pc' = "save"
  /\ UNCHANGED << fs, cwd, HOME, args, num_iterations, i, images, idx, lastCell, status,
                  genLogs, fsAtCall, genRuns, uploadState >>

\* mutant: the display_images flag is ignored
PcAfterSaveAlways(display_images) == "gen_display"

PcAfterSave(display_images) == IF display_images THEN "gen_display" ELSE "gen_enum"

SaveReturn ==
  /\ pc = "save"
  /\ fs' = Put(fs, Key(cwd, image_name), FileEntry(images[idx + 1]))
  /\ saves' = Append(saves, [name |-> image_name, image |-> images[idx + 1]])
  /\ everSaved' = everSaved \cup { [dir |-> args.output_dir, key |-> Key(cwd, image_name)] }
  /\ inFlight' = Front(inFlight)
  /\ pc' = PcAfterSave(args.display_images)
  /\ idx' = IF args.display_images THEN idx ELSE idx + 1
  /\ UNCHANGED << cwd, HOME, args, num_iterations, i, images, image_name, lastCell, status,
                  pipelineCalls, returned, displays, fsAtCall, genRuns, uploadState >>

\* mutant: a failed save removes what the call saved so far
FsAfterFailedSaveCleanup(f, wd, name, opened) ==
  LET gone == { Key(wd, saves[n].name) : n \in DOMAIN saves }
  IN [x \in DOMAIN f \ gone |-> f[x]]

\* image.save raises; it may have opened (and so truncated) its target before
FsAfterFailedSave(f, wd, name, opened) ==
  IF opened THEN Put(f, Key(wd, name), FileEntry(Partial)) ELSE f

SaveRaise(opened) ==
  /\ pc = "save"
  /\ fs' = FsAfterFailedSave(fs, cwd, image_name, opened)
  /\ EndCell("save")
  /\ DropLocals
  /\ UNCHANGED << cwd, HOME, args, lastCell, genLogs, fsAtCall, genRuns, uploadState >>

DisplayCall ==
  /\ pc = "gen_display"
  /\ displays' = Append(displays, image_name)
  /\ inFlight' = Append(inFlight, "display")
  /\ pc' = "display"
  /\ UNCHANGED << fs, cwd, HOME, args, genLocals, lastCell, status, pipelineCalls,
                  returned, saves, everSaved, fsAtCall, genRuns, uploadState >>

DisplayReturn ==
  /\ pc = "display"
  /\ inFlight' = Front(inFlight)
  /\ idx' = idx + 1
  /\ pc' = "gen_enum"
  /\ UNCHANGED << fs, cwd, HOME, args, num_iterations, i, images, image_name, lastCell,
                  status, genLogs, fsAtCall, genRuns, uploadState >>

DisplayRaise ==
  /\ pc = "display"
  /\ EndCell("display")
  /\ DropLocals
  /\ UNCHANGED << fs, cwd, HOME, args, lastCell, genLogs, fsAtCall, genRuns, uploadState >>

\* the inner loop is exhausted: next iteration of the outer loop
NextIteration ==
  /\ pc = "gen_enum"
  /\ idx >= Len(images)
  /\ i' = i + 1
  /\ pc' = "gen_loop"
  /\ UNCHANGED << fs, cwd, HOME, args, num_iterations, images, idx, image_name, inFlight,
                  lastCell, status, genLogs, fsAtCall, genRuns, uploadState >>

GenerateReturn ==
  /\ pc = "gen_loop"
  /\ i >= num_iterations
  /\ EndCell("ok")
  /\ DropLocals
  /\ UNCHANGED << fs, cwd, HOME, args, lastCell, genLogs, fsAtCall, genRuns, uploadState >>

\* ------------------------------------------------------------- HOME cell
RunHomeCell ==
  /\ pc = "idle"
  /\ HOME' = cwd
  /\ UNCHANGED << fs, cwd, pc, args, genLocals, inFlight, lastCell, status, fsAtCall,
                  genLogs, genRuns, uploadState >>

\* ----------------------------------------------------------- upload cell
\* mutant: another directory name than generate_images' default
ImageDirImages(home) == PathJoin(PathJoin(home, << << "images" >> >>), << <<>> >>)

\* os.path.join(HOME, "generated_images", "")
ImageDir(home) == PathJoin(PathJoin(home, GeneratedImages), << <<>> >>)

FileExtensionType == << << ".", "png" >> >>

\* image_dir + '/*' + file_extension_type
GlobPattern(home) == Concat(Concat(ImageDir(home), << <<>>, << "*" >> >>), FileExtensionType)

\* mutant: the retry count left at the SDK's default
UploadArgsNoRetry(image) == [image |-> image, num_retry_uploads |-> 0]

UploadArgs(image) == [image |-> image, num_retry_uploads |-> NumRetryUploads]

\* mutant: the line carries the position of the file in the list
ProgressLineIndex(glob, image) ==
  [count |-> CHOOSE j \in DOMAIN glob : glob[j] = image, image |-> image]

ProgressLine(glob, image) == [count |-> Len(glob), image |-> image]

\* mutant: files an earlier run of the cell uploaded are left out of the list
RunUploadCellSkipUploaded ==
  /\ pc = "idle"
  /\ HOME # Undefined
  /\ uploadRuns' = uploadRuns + 1
  /\ lastCell' = "upload"
  /\ fsAtCall' = fs
  /\ uploads' = << >>
  /\ printed' = << >>
  /\ args' = NoArgs
  /\ pipelineCalls' = << >>
  /\ returned' = << >>
  /\ saves' = << >>
  /\ displays' = << >>
  /\ LET seen == UNION { { Key(cwd, uploadLog[r][n]) : n \in DOMAIN uploadLog[r] } :
                           r \in DOMAIN uploadLog }
         todo == { p \in GlobSet(fs, cwd, GlobPattern(HOME)) : Key(cwd, p) \notin seen }
     IN /\ Cardinality(todo) <= MaxGlob
        /\ image_glob' \in Orderings(todo)
  /\ pos' = 1
  /\ pc' = "upload_loop"
  /\ status' = "running"
  /\ UNCHANGED << fs, cwd, HOME, genLocals, everSaved, genRuns, inFlight >>

\* the cell up to the loop: image_dir, the Roboflow project (external, may
\* raise), the glob; the listing order is the filesystem's
RunUploadCell ==
  /\ pc = "idle"
  /\ uploadRuns' = uploadRuns + 1
  /\ lastCell' = "upload"
  /\ fsAtCall' = fs
  /\ uploads' = << >>
  /\ printed' = << >>
  /\ args' = NoArgs
  /\ pipelineCalls' = << >>
  /\ returned' = << >>
  /\ saves' = << >>
  /\ displays' = << >>
  /\ \/ /\ HOME = Undefined
        /\ EndCell("NameError")
        /\ UNCHANGED << image_glob, pos >>
     \/ /\ HOME # Undefined
        /\ EndCell("roboflow")
        /\ UNCHANGED << image_glob, pos >>
     \/ /\ HOME # Undefined
        /\ Cardinality(GlobSet(fs, cwd, GlobPattern(HOME))) <= MaxGlob
        /\ image_glob' \in Orderings(GlobSet(fs, cwd, GlobPattern(HOME)))
        /\ pos' = 1
        /\ pc' = "upload_loop"
        /\ status' = "running"
        /\ UNCHANGED inFlight
  /\ UNCHANGED << fs, cwd, HOME, genLocals, everSaved, genRuns >>

CanCallUpload == pc = "upload_loop" /\ pos <= Len(image_glob)

\* mutant: the list is walked from its last file to its first
UploadCallReversed ==
  /\ CanCallUpload
  /\ uploads' = Append(uploads, UploadArgs(image_glob[Len(image_glob) - pos + 1]))
  /\ inFlight' = Append(inFlight, "upload")
  /\ pc' = "upload"
  /\ UNCHANGED << fs, cwd, HOME, args, genLocals, genLogs, genRuns, lastCell, status,
                  fsAtCall, image_glob, pos, printed, uploadRuns >>

UploadCall ==
  /\ CanCallUpload
  /\ uploads' = Append(uploads, UploadArgs(image_glob[pos]))
  /\ inFlight' = Append(inFlight, "upload")
  /\ pc' = "upload"
  /\ UNCHANGED << fs, cwd, HOME, args, genLocals, genLogs, genRuns, lastCell, status,
                  fsAtCall, image_glob, pos, printed, uploadRuns >>

\* upload returned: the progress line, then the next file
UploadReturn ==
  /\ pc = "upload"
  /\ printed' = Append(printed, ProgressLine(image_glob, image_glob[pos]))
  /\ inFlight' = Front(inFlight)
  /\ pos' = pos + 1
  /\ pc' = "upload_loop"
  /\ UNCHANGED << fs, cwd, HOME, args, genLocals, genLogs, genRuns, lastCell, status,
                  fsAtCall, image_glob, uploads, uploadRuns >>

\* mutant: the failed upload is caught and the loop goes on with the same file
UploadRaiseRetry ==
  /\ pc = "upload"
  /\ pc' = "upload_loop"
  /\ status' = "upload"
  /\ inFlight' = << >>
  /\ UNCHANGED << fs, cwd, HOME, args, genLocals, genLogs, genRuns, lastCell,
                  fsAtCall, image_glob, pos, uploads, printed, uploadRuns >>

UploadRaise ==
  /\ pc = "upload"
  /\ EndCell("upload")
  /\ UNCHANGED << fs, cwd, HOME, args, genLocals, genLogs, genRuns, lastCell,
                  fsAtCall, image_glob, pos, uploads, printed, uploadRuns >>

UploadCellDone ==
  /\ pc = "upload_loop"
  /\ pos > Len(image_glob)
  /\ EndCell("ok")
  /\ UNCHANGED << fs, cwd, HOME, args, genLocals, genLogs, genRuns, lastCell,
                  fsAtCall, image_glob, pos, uploads, printed, uploadRuns >>

\* ---------------------------------------------------------- specification
BatchSizes == (1..MaxBatch) \cup { DefaultNumImagesPerPrompt }

RunGenerateCell ==
  /\ genRuns < MaxGenRuns
  /\ \E c \in Callers, total \in 0..MaxTotal, batch \in BatchSizes,
        output_dir \in OutputDirs, display_images \in BOOLEAN :
       CallGenerateImages(c.prompt, total, batch, c.guidance_scale, output_dir, display_images)

PipelineReturns == \E n \in 0..(args.num_images_per_prompt + 1) : PipelineReturn(n)

SaveRaises == \E opened \in BOOLEAN : SaveRaise(opened)

\* the diffusion notebook keeps no history and has none of the YOLO notebooks' state
NoHistory == UNCHANGED << rerunLogs, yoloState, namespace >>

Next ==
  \/ RunGenerateCell /\ NoHistory
  \/ PipelineCall /\ NoHistory
  \/ PipelineReturns /\ NoHistory
  \/ PipelineRaise /\ NoHistory
  \/ SaveCall /\ NoHistory
  \/ SaveReturn /\ NoHistory
  \/ SaveRaises /\ NoHistory
  \/ DisplayCall /\ NoHistory
  \/ DisplayReturn /\ NoHistory
  \/ DisplayRaise /\ NoHistory
  \/ NextIteration /\ NoHistory
  \/ GenerateReturn /\ NoHistory
  \/ RunHomeCell /\ NoHistory
  \/ uploadRuns < MaxUploadRuns /\ RunUploadCell /\ NoHistory
  \/ UploadCall /\ NoHistory
  \/ UploadReturn /\ NoHistory
  \/ UploadRaise /\ NoHistory
  \/ UploadCellDone /\ NoHistory

Spec == Init /\ [][Next]_vars

\* ------------------------------------------------- the cells run again
\* The notebook's cells run any number of times in any order. This
\* specification follows runs that go through (the pipeline returns what it
\* was asked for, save does not fail) into the default directory, which is
\* absent or empty at first, and records what the cells did across runs.
InitRerun ==
  /\ Init
  /\ fs \in { InitialFs(cwd, "absent", {}), InitialFs(cwd, "dir", {}) }

RerunGenerateCell ==
  /\ genRuns < MaxReruns
  /\ \E c \in Callers, total \in 0..MaxTotal, batch \in 1..MaxBatch :
       /\ c.guidance_scale = CellGuidanceScale
       /\ CallGenerateImages(c.prompt, total, batch, c.guidance_scale, GeneratedImages, FALSE)
  /\ genCalls' = Append(genCalls, args')
  /\ uploadLog' = << >>
  /\ uploadsDone' = 0
  /\ UNCHANGED << yoloState, namespace >>

PipelineReturnsExact == PipelineReturn(args.num_images_per_prompt)

RerunUploadCell ==
  /\ Len(uploadLog) < MaxUploadReruns
  /\ HOME # Undefined
  /\ RunUploadCell
  /\ status' = "running"
  /\ uploadLog' = Append(uploadLog, << >>)
  /\ UNCHANGED << genCalls, uploadsDone, yoloState, namespace >>

RerunUploadCall ==
  /\ UploadCall
  /\ uploadLog' = [uploadLog EXCEPT ![Len(uploadLog)] = Append(@, image_glob[pos])]
  /\ UNCHANGED << genCalls, uploadsDone, yoloState, namespace >>

RerunUploadCellDone ==
  /\ UploadCellDone
  /\ uploadsDone' = uploadsDone + 1
  /\ UNCHANGED << genCalls, uploadLog, yoloState, namespace >>

NextRerun ==
  \/ RerunGenerateCell
  \/ PipelineCall /\ NoHistory
  \/ PipelineReturnsExact /\ NoHistory
  \/ SaveCall /\ NoHistory
  \/ SaveReturn /\ NoHistory
  \/ NextIteration /\ NoHistory
  \/ GenerateReturn /\ NoHistory
  \/ RunHomeCell /\ NoHistory
  \/ RerunUploadCell
  \/ RerunUploadCall
  \/ UploadReturn /\ NoHistory
  \/ UploadRaise /\ NoHistory
  \/ RerunUploadCellDone

SpecRerun == InitRerun /\ [][NextRerun]_vars

\* ------------------------------------------------- the YOLOv7 notebook
Yolov7 == << "yolov7" >>
TrainPy == << "train", ".", "py" >>
DetectPy == << "detect", ".", "py" >>
Models == << "models" >>
RunsTrain == << << "runs" >>, << "train" >> >>
RunsDetect == << << "runs" >>, << "detect" >> >>
Weights == << "weights" >>
BestPt == << "best", ".", "pt" >>
JpgSuffix == << ".", "jpg" >>
DisplayLimit == 10000

\* the path string of entry k
AbsPath(k) == << <<>> >> \o k

\* %cd target: the directory changes when the target is one, else it stays
Cd(f, wd, target) == IF IsDir(f, Key(wd, target)) THEN AbsPath(Key(wd, target)) ELSE wd

\* %cd {HOME}/<repo>; with HOME undefined the text is not expanded and names
\* no directory
CdRepo(f, wd, home, repo) ==
  IF home = Undefined THEN wd ELSE Cd(f, wd, Concat(home, << <<>>, repo >>))

\* git clone: the repository's scripts, unless the destination exists
Cloned(f, wd, repo) ==
  LET k == Key(wd, << repo >>)
  IN IF Exists(f, k) THEN f
     ELSE Put(Put(Put(Put(f, k, DirEntry), Append(k, TrainPy), FileEntry(Orig)),
                  Append(k, DetectPy), FileEntry(Orig)),
              Append(k, Models), DirEntry)

HasScript(f, wd, script) == Exists(f, Key(wd, << script >>))

Digits == { Digit(d) : d \in 0..9 }
DigitValue(t) == CHOOSE d \in 0..9 : Digit(d) = t

\* int(s) of a string of decimal digits
RECURSIVE IntOf(_)
IntOf(s) == IF s = << >> THEN 0 ELSE (IntOf(Front(s)) * 10) + DigitValue(Last(s))

\* x.replace(old, "")
Replace(x, old) == SelectSeq(x, LAMBDA t : t # old)

\* int() raises ValueError on anything but digits
SortKeyRaises(x) == \E j \in DOMAIN Replace(x, "exp") : Replace(x, "exp")[j] \notin Digits

\* mutant: the suffixes compared as text, by their first character
SortKeyText(x) ==
  LET s == Replace(x, "exp") IN IF s = << >> THEN 0 ELSE DigitValue(s[1]) + 1

\* lambda x: int(x.replace("exp", "") or 0)
SortKey(x) == LET s == Replace(x, "exp") IN IF s = << >> THEN 0 ELSE IntOf(s)

\* sorted(names, key=...)[-1]: the sort is stable, so among names of equal
\* key the one listed last wins, and the listing order is the filesystem's
MostRecent(names) == { x \in names : \A y \in names : SortKey(y) <= SortKey(x) }

\* what the EXP_DIR line raises, "ok" when it raises nothing
ExpDirOutcome(f, wd, runs) ==
  LET k == Key(wd, runs)
  IN IF ~Exists(f, k) THEN "FileNotFoundError"
     ELSE IF ~IsDir(f, k) THEN "NotADirectoryError"
     ELSE IF \E x \in ListDir(f, k) : SortKeyRaises(x) THEN "ValueError"
     ELSE IF ListDir(f, k) = {} THEN "IndexError"
     ELSE "ok"

\* the run directories train.py and detect.py make: exp, then exp2, exp3, ...
\* one past the largest number in use
ExpName(n) == IF n = 1 THEN << "exp" >> ELSE << "exp" >> \o Str(n)

NextRunDir(names) ==
  LET numbered == { x \in names : Len(x) > 1 /\ x[1] = "exp"
                                   /\ \A j \in 2..Len(x) : x[j] \in Digits }
      used == { IntOf(Tail(x)) : x \in numbered }
  IN IF << "exp" >> \notin names THEN << "exp" >>
     ELSE IF used = {} THEN ExpName(2)
     ELSE ExpName((CHOOSE n \in used : \A u \in used : u <= n) + 1)

\* train.py: a new run directory with weights/, and best.pt in it when the
\* training got that far; the file's content names the run it came from
Trained(f, wd, done) ==
  LET runs == Key(wd, RunsTrain)
      dir == Append(runs, NextRunDir(ListDir(f, runs)))
      g == MakeDirs(f, Append(dir, Weights))
  IN IF done THEN Put(g, dir \o << Weights, BestPt >>, FileEntry(Last(dir))) ELSE g

ImageJpg(n) == << "img_" >> \o Str(n) \o JpgSuffix

\* the run directory the next detect.py makes
DetectDir(f, wd) ==
  LET runs == Key(wd, RunsDetect) IN Append(runs, NextRunDir(ListDir(f, runs)))

\* detect.py: a new run directory with one annotated .jpg per test image
Detected(f, wd, m) ==
  LET dir == DetectDir(f, wd)
      g == MakeDirs(f, dir)
  IN [x \in DOMAIN g \cup { Append(dir, ImageJpg(n)) : n \in 1..m } |->
        IF x \in DOMAIN g THEN g[x] ELSE FileEntry(Orig)]

\* a tree the notebook left behind in an earlier session: k training runs
RECURSIVE TrainedTimes(_, _, _)
TrainedTimes(f, wd, k) == IF k = 0 THEN f ELSE Trained(TrainedTimes(f, wd, k - 1), wd, TRUE)

EarlierRuns == { 0, 9 }

InitialFs7(wd, k) ==
  IF k = 0 THEN BaseFs(wd)
  ELSE TrainedTimes(Cloned(BaseFs(wd), wd, Yolov7), wd \o << Yolov7 >>, k)

\* what the YOLO notebooks' cells leave alone; their cells run in one step
otherNotebook == << pc, args, genLocals, image_glob, pos, inFlight, uploads, printed,
                    genLogs, genRuns, uploadRuns, rerunLogs, namespace >>

\* HOME = os.getcwd(); !git clone (external, may fail); %cd yolov7.
\* Followed once per kernel.
SetupCell7 ==
  /\ pc = "idle"
  /\ HOME = Undefined
  /\ HOME' = cwd
  /\ \E cloned \in BOOLEAN :
       /\ fs' = IF cloned THEN Cloned(fs, cwd, Yolov7) ELSE fs
       /\ cwd' = Cd(fs', cwd, << Yolov7 >>)
  /\ lastCell' = "setup"
  /\ status' = "ok"
  /\ fsAtCall' = fs
  /\ UNCHANGED << otherNotebook, yoloState >>

\* %cd {HOME}/yolov7; !python train.py ... (no --name: the run directory is
\* the next exp). A shell line that fails raises nothing.
TrainCell7 ==
  /\ pc = "idle"
  /\ trainRuns < MaxTrainRuns
  /\ trainRuns' = trainRuns + 1
  /\ cwd' = CdRepo(fs, cwd, HOME, Yolov7)
  /\ \E done \in BOOLEAN :
       fs' = IF HasScript(fs, cwd', TrainPy) THEN Trained(fs, cwd', done) ELSE fs
  /\ lastCell' = "train"
  /\ status' = "ok"
  /\ fsAtCall' = fs
  /\ listed' = << >>
  /\ shown' = << >>
  /\ UNCHANGED << HOME, otherNotebook, templateState, EXP_DIR, lastDetect, limit, zipped, detectRuns >>

\* "runs/train/" + EXP_DIR + "/weights/best.pt"
WeightsPath(exp_dir) == RunsTrain \o << exp_dir, Weights, BestPt >>

\* the evaluation cell: %cd {HOME}/yolov7, EXP_DIR, !python detect.py on the
\* test images (their number m is the dataset's; without the weights file
\* detect.py writes no image)
EvalCell7 ==
  /\ pc = "idle"
  /\ detectRuns < MaxDetectRuns
  /\ detectRuns' = detectRuns + 1
  /\ cwd' = CdRepo(fs, cwd, HOME, Yolov7)
  /\ lastCell' = "evaluate"
  /\ fsAtCall' = fs
  /\ status' = ExpDirOutcome(fs, cwd', RunsTrain)
  /\ IF status' # "ok"
     THEN UNCHANGED << fs, EXP_DIR, lastDetect >>
     ELSE \E e \in MostRecent(ListDir(fs, Key(cwd', RunsTrain))) : \E m \in 0..MaxImages :
            /\ EXP_DIR' = e
            /\ m > 0 => Exists(fs, Key(cwd', WeightsPath(e)))
            /\ IF HasScript(fs, cwd', DetectPy)
               THEN /\ fs' = Detected(fs, cwd', m)
                    /\ lastDetect' = [weights |-> WeightsPath(e), out |-> DetectDir(fs, cwd')]
               ELSE /\ fs' = fs
                    /\ lastDetect' = [weights |-> WeightsPath(e), out |-> Undefined]
  /\ listed' = << >>
  /\ shown' = << >>
  /\ UNCHANGED << HOME, otherNotebook, templateState, limit, zipped, trainRuns >>

\* f"{HOME}/yolov7/runs/detect/{EXP_DIR}/*.jpg"
Pattern7(home, exp_dir) ==
  Concat(Concat(Concat(home, << <<>>, Yolov7 >> \o RunsDetect \o << <<>> >>), << exp_dir >>),
         << <<>>, << "*" >> \o JpgSuffix >>)

\* mutant: the counter compared with <=
DisplayLoopInclusive(names, lim) ==
  LET F[n \in 0..Len(names)] ==
        IF n = 0 THEN << >>
        ELSE IF (n - 1) <= lim THEN Append(F[n - 1], names[n]) ELSE F[n - 1]
  IN F[Len(names)]

\* the loop over the glob list: i counts every name, the names met while
\* i < limit are displayed; F[n] is what is displayed after n names (i = n)
DisplayLoop(names, lim) ==
  LET F[n \in 0..Len(names)] ==
        IF n = 0 THEN << >>
        ELSE IF (n - 1) < lim THEN Append(F[n - 1], names[n]) ELSE F[n - 1]
  IN F[Len(names)]

\* the display cell (it does not change directory); lim is the value the
\* cell gives limit
DisplayCell7(lim) ==
  /\ pc = "idle"
  /\ lastCell' = "display"
  /\ fsAtCall' = fs
  /\ IF ExpDirOutcome(fs, cwd, RunsDetect) # "ok"
     THEN /\ status' = ExpDirOutcome(fs, cwd, RunsDetect)
          /\ shown' = << >>
          /\ listed' = << >>
          /\ UNCHANGED << EXP_DIR, limit >>
     ELSE \E e \in MostRecent(ListDir(fs, Key(cwd, RunsDetect))) :
            /\ EXP_DIR' = e
            /\ limit' = lim
            /\ IF HOME = Undefined
               THEN /\ status' = "NameError"
                    /\ shown' = << >>
                    /\ listed' = << >>
               ELSE /\ listed' \in Orderings(GlobSet(fs, cwd, Pattern7(HOME, e)))
                    /\ shown' = DisplayLoop(listed', lim)
                    /\ status' = "ok"
  /\ UNCHANGED << fs, cwd, HOME, otherNotebook, templateState, lastDetect, zipped, trainRuns, detectRuns >>

Under(f, k) == { x \in DOMAIN f : Len(x) >= Len(k) /\ SubSeq(x, 1, Len(k)) = k }

ExportZip == << "export", ".", "zip" >>

\* "runs/train/exp/weights/best.pt"
ExportedWeights == RunsTrain \o << << "exp" >>, Weights, BestPt >>

\* the three zip lines: the runs/detect tree, the best.pt of runs/train/exp,
\* the entries of runs/train/exp
Archived(f, wd) ==
  LET exp == Key(wd, RunsTrain \o << << "exp" >> >>)
  IN Under(f, Key(wd, RunsDetect))
       \cup { x \in { Key(wd, ExportedWeights) } : Exists(f, x) }
       \cup { x \in DOMAIN f : Len(x) > 0 /\ Parent(x) = exp /\ ~IsHidden(Last(x)) }

\* the export cell (it does not change directory); zip writes export.zip
\* when it has something to put in it
ExportCell7 ==
  /\ pc = "idle"
  /\ zipped' = Archived(fs, cwd)
  /\ fs' = IF zipped' = {} THEN fs ELSE Put(fs, Key(cwd, << ExportZip >>), FileEntry(Orig))
  /\ lastCell' = "export"
  /\ status' = "ok"
  /\ fsAtCall' = fs
  /\ listed' = << >>
  /\ shown' = << >>
  /\ UNCHANGED << cwd, HOME, otherNotebook, templateState, EXP_DIR, lastDetect, limit, trainRuns, detectRuns >>

\* limit as the cell sets it, and as a reader told "max images to print"
\* sets it
Limits == { MaxImages - 1, DisplayLimit }

Init7 ==
  /\ notebook = "yolov7"
  /\ cwd \in WorkDirs
  /\ \E k \in EarlierRuns : fs = InitialFs7(cwd, k)
  /\ FreshKernel

Next7 ==
  \/ SetupCell7
  \/ TrainCell7
  \/ EvalCell7
  \/ \E lim \in Limits : DisplayCell7(lim)
  \/ ExportCell7

SpecYolo7 == Init7 /\ [][Next7]_vars

\* ------------------------------------------------- the YOLOv5 notebook
Yolov5 == << "yolov5" >>

\* HOME = os.getcwd()
HomeCell5 ==
  /\ pc = "idle"
  /\ HOME' = cwd
  /\ lastCell' = "home"
  /\ status' = "ok"
  /\ fsAtCall' = fs
  /\ listed' = << >>
  /\ shown' = << >>
  /\ UNCHANGED << fs, cwd, otherNotebook, templateState, EXP_DIR, lastDetect, limit, zipped, trainRuns,
                  detectRuns >>

\* !git clone (external, may fail); %cd yolov5. Followed while the kernel is
\* in the directory it started in.
CloneCell5 ==
  /\ pc = "idle"
  /\ cwd \in WorkDirs
  /\ \E cloned \in BOOLEAN :
       /\ fs' = IF cloned THEN Cloned(fs, cwd, Yolov5) ELSE fs
       /\ cwd' = Cd(fs', cwd, << Yolov5 >>)
  /\ lastCell' = "clone"
  /\ status' = "ok"
  /\ fsAtCall' = fs
  /\ listed' = << >>
  /\ shown' = << >>
  /\ UNCHANGED << HOME, otherNotebook, templateState, EXP_DIR, lastDetect, limit, zipped, trainRuns,
                  detectRuns >>

\* "runs/train/yolov5s_results/weights/best.pt"
ResultsWeights == RunsTrain \o << << "yolov5s_results" >>, Weights, BestPt >>

\* %cd {HOME}/yolov5; !python detect.py ... (no --name: the run directory is
\* the next exp); m is the number of test images it annotates
DetectCell5 ==
  /\ pc = "idle"
  /\ detectRuns < MaxDetectRuns
  /\ detectRuns' = detectRuns + 1
  /\ cwd' = CdRepo(fs, cwd, HOME, Yolov5)
  /\ \E m \in 0..MaxImages :
       IF HasScript(fs, cwd', DetectPy)
       THEN /\ fs' = Detected(fs, cwd', m)
            /\ lastDetect' = [weights |-> ResultsWeights, out |-> DetectDir(fs, cwd')]
       ELSE /\ fs' = fs
            /\ lastDetect' = [weights |-> ResultsWeights, out |-> Undefined]
  /\ lastCell' = "detect"
  /\ status' = "ok"
  /\ fsAtCall' = fs
  /\ listed' = << >>
  /\ shown' = << >>
  /\ UNCHANGED << HOME, otherNotebook, templateState, EXP_DIR, limit, zipped, trainRuns >>

\* HOME+'/yolov5/runs/detect/exp/*.jpg'
Pattern5(home) ==
  Concat(home, << <<>>, Yolov5 >> \o RunsDetect \o << << "exp" >>, << "*" >> \o JpgSuffix >>)

\* the display cell: every name of the glob list is displayed
DisplayCell5 ==
  /\ pc = "idle"
  /\ lastCell' = "display"
  /\ fsAtCall' = fs
  /\ IF HOME = Undefined
     THEN /\ status' = "NameError"
          /\ listed' = << >>
     ELSE /\ status' = "ok"
          /\ listed' \in Orderings(GlobSet(fs, cwd, Pattern5(HOME)))
  /\ shown' = listed'
  /\ UNCHANGED << fs, cwd, HOME, otherNotebook, templateState, EXP_DIR, lastDetect, limit, zipped,
                  trainRuns, detectRuns >>

\* ---- the dataset, data.yaml and template cells
DatasetDir == << "BCCD-4" >>
DataYaml == << "data", ".", "yaml" >>
CustomYaml == << "custom_yolov5s", ".", "yaml" >>

\* class counts the downloaded dataset may have
ClassCounts == { 3, 12 }

\* data.yaml as the download writes it: its text, split around the nc value
DataYamlText(n) == << "nc: " >> \o Str(n) \o << "\nnames: [...]\n" >>

\* yaml.safe_load(stream)['nc']
SafeLoadNc(text) == IntOf(SubSeq(text, 2, Len(text) - 1))

\* the class counts a download may bring: the cell names one version of one
\* project, so every download of a session brings the same data.yaml
Downloadable(f) ==
  LET had == { SafeLoadNc(f[x].data) : x \in { y \in DOMAIN f : Len(y) > 0 /\ Last(y) = DataYaml } }
  IN IF had = {} THEN ClassCounts ELSE had

\* the dataset cell: %cd {HOME}/yolov5, then the download (external: it
\* may raise; what is on disk already is left as it is)
DatasetCell5 ==
  /\ pc = "idle"
  /\ cwd' = CdRepo(fs, cwd, HOME, Yolov5)
  /\ lastCell' = "dataset"
  /\ fsAtCall' = fs
  /\ listed' = << >>
  /\ shown' = << >>
  /\ \/ /\ status' = "roboflow"
        /\ UNCHANGED << fs, dataset >>
     \/ /\ status' = "ok"
        /\ dataset' = [location |-> AbsPath(Key(cwd', << DatasetDir >>))]
        /\ \E n \in Downloadable(fs) :
             LET dir == Key(cwd', << DatasetDir >>)
             IN fs' = IF Exists(fs, Append(dir, DataYaml)) THEN fs
                      ELSE Put(MakeDirs(fs, dir), Append(dir, DataYaml),
                               FileEntry(DataYamlText(n)))
  /\ UNCHANGED << HOME, otherNotebook, EXP_DIR, lastDetect, limit, zipped, trainRuns,
                  detectRuns, num_classes, writetemplate >>

\* dataset.location + "/data.yaml"
DataYamlPath(location) == Concat(location, << <<>>, DataYaml >>)

\* the data.yaml cell: num_classes = str(yaml.safe_load(stream)['nc'])
NumClassesCell5 ==
  /\ pc = "idle"
  /\ lastCell' = "data.yaml"
  /\ fsAtCall' = fs
  /\ listed' = << >>
  /\ shown' = << >>
  /\ IF dataset = Undefined
     THEN /\ status' = "NameError"
          /\ UNCHANGED num_classes
     ELSE IF ~Exists(fs, Key(cwd, DataYamlPath(dataset.location)))
     THEN /\ status' = "FileNotFoundError"
          /\ UNCHANGED num_classes
     ELSE /\ status' = "ok"
          /\ num_classes' = Str(SafeLoadNc(fs[Key(cwd, DataYamlPath(dataset.location))].data))
  /\ UNCHANGED << fs, cwd, HOME, otherNotebook, EXP_DIR, lastDetect, limit, zipped,
                  trainRuns, detectRuns, dataset, writetemplate >>

\* the cell that defines and registers writetemplate
MagicCell5 ==
  /\ pc = "idle"
  /\ writetemplate' = TRUE
  /\ lastCell' = "magic"
  /\ status' = "ok"
  /\ fsAtCall' = fs
  /\ listed' = << >>
  /\ shown' = << >>
  /\ UNCHANGED << fs, cwd, HOME, otherNotebook, EXP_DIR, lastDetect, limit, zipped,
                  trainRuns, detectRuns, dataset, num_classes >>

\* the template cell's body: text, the field {num_classes}, text
TemplateHead == "\n# parameters\nnc: "
TemplateRest == "  # number of classes\ndepth_multiple: 0.33 ... [[17, 20, 23], 1, Detect, [nc, anchors]],\n  ]"
TemplateCell == << [kind |-> "text", val |-> TemplateHead],
                   [kind |-> "field", val |-> "num_classes"],
                   [kind |-> "text", val |-> TemplateRest] >>

\* globals(): the names defined so far, with their values
UserGlobals ==
  LET value == [n \in { "HOME", "dataset", "num_classes" } |->
                  IF n = "HOME" THEN HOME ELSE IF n = "dataset" THEN dataset ELSE num_classes]
  IN [n \in { x \in DOMAIN value : value[x] # Undefined } |-> value[n]]

\* cell.format(**g) raises KeyError on a field that g does not have
FormatRaises(cell, g) ==
  \E j \in DOMAIN cell : cell[j].kind = "field" /\ cell[j].val \notin DOMAIN g

\* cell.format(**g)
Format(cell, g) ==
  LET F[n \in 0..Len(cell)] ==
        IF n = 0 THEN << >>
        ELSE IF cell[n].kind = "field" THEN F[n - 1] \o g[cell[n].val]
        ELSE Append(F[n - 1], cell[n].val)
  IN F[Len(cell)]

\* the magic's line with {HOME} expanded; left as written when HOME is not
\* defined
TemplateTarget(home) ==
  IF home = Undefined THEN << << "{HOME}" >>, Yolov5, Models, CustomYaml >>
  ELSE Concat(home, << <<>>, Yolov5, Models, CustomYaml >>)

EmptyText == << >>

\* what open(line, 'w') raises, "ok" when it opens
OpenOutcome(f, k) ==
  IF ~Exists(f, Parent(k)) THEN "FileNotFoundError"
  ELSE IF ~IsDir(f, Parent(k)) THEN "NotADirectoryError"
  ELSE IF IsDir(f, k) THEN "IsADirectoryError"
  ELSE "ok"

\* mutant: the file opened with mode 'a'
OpenForAppending(f, k) == IF Exists(f, k) THEN f ELSE Put(f, k, FileEntry(EmptyText))

\* open(line, 'w'): the file exists and is empty
OpenForWriting(f, k) == Put(f, k, FileEntry(EmptyText))

\* f.write(text)
Write(f, k, text) == Put(f, k, FileEntry(f[k].data \o text))

\* mutant: the text is formatted before the file is opened
FsAfterWriteTemplateFormatFirst(f, k, cell, g) ==
  IF FormatRaises(cell, g) THEN f
  ELSE Write(OpenForWriting(f, k), k, Format(cell, g))

\* with open(line, 'w') as f: f.write(cell.format(**globals()))
FsAfterWriteTemplate(f, k, cell, g) ==
  IF FormatRaises(cell, g) THEN OpenForWriting(f, k)
  ELSE Write(OpenForWriting(f, k), k, Format(cell, g))

\* %%writetemplate {HOME}/yolov5/models/custom_yolov5s.yaml
TemplateCell5 ==
  /\ pc = "idle"
  /\ lastCell' = "template"
  /\ fsAtCall' = fs
  /\ listed' = << >>
  /\ shown' = << >>
  /\ LET k == Key(cwd, TemplateTarget(HOME))
     IN IF ~writetemplate
        THEN /\ status' = "UsageError"
             /\ fs' = fs
        ELSE IF OpenOutcome(fs, k) # "ok"
        THEN /\ status' = OpenOutcome(fs, k)
             /\ fs' = fs
        ELSE /\ status' = IF FormatRaises(TemplateCell, UserGlobals) THEN "KeyError" ELSE "ok"
             /\ fs' = FsAfterWriteTemplate(fs, k, TemplateCell, UserGlobals)
  /\ UNCHANGED << cwd, HOME, otherNotebook, EXP_DIR, lastDetect, limit, zipped, trainRuns,
                  detectRuns, templateState >>

\* the class count of the stock yolov5s.yaml
StockClasses == 80

\* the working directory as an earlier session of the notebook left it: the
\* checkout, with a custom_yolov5s.yaml written then
InitialFs5(wd, earlier) ==
  IF ~earlier THEN BaseFs(wd)
  ELSE Put(Cloned(BaseFs(wd), wd, Yolov5), Key(wd, << Yolov5, Models, CustomYaml >>),
           FileEntry(<< TemplateHead >> \o Str(StockClasses) \o << TemplateRest >>))

Init5 ==
  /\ notebook = "yolov5"
  /\ cwd \in WorkDirs
  /\ \E earlier \in BOOLEAN : fs = InitialFs5(cwd, earlier)
  /\ FreshKernel

Next5 ==
  \/ HomeCell5
  \/ CloneCell5
  \/ DatasetCell5
  \/ NumClassesCell5
  \/ MagicCell5
  \/ TemplateCell5
  \/ DetectCell5
  \/ DisplayCell5

SpecYolo5 == Init5 /\ [][Next5]_vars

\* ------------------------------------------------- the cells as wholes
\* The operator runs any cell of the notebook at any time. This specification
\* follows the kernel's namespace: each cell is the sequence of its
\* statements, each statement the global names it reads and the ones it
\* binds. A Python statement that reads an unbound name raises NameError
\* (KeyError in str.format, UsageError for a missing cell magic) and ends the
\* cell; a magic or shell line expands {name} only where name is bound and
\* never raises. Nothing outside the notebook fails: imports, downloads and
\* the pipeline's calls go through, each returning the images it was asked
\* for. Of the cells' other effects it keeps those of generate_images.
Py(line, reads, defs) == [line |-> line, kind |-> "py", reads |-> reads, defs |-> defs, op |-> ""]
\* a line starting with % or !
Magic(line, reads) == [line |-> line, kind |-> "magic", reads |-> reads, defs |-> {}, op |-> ""]
\* the body of a for loop over what a glob found: run if it found anything
Body(line, reads, defs) == [line |-> line, kind |-> "body", reads |-> reads, defs |-> defs, op |-> ""]
\* a statement of generate_images with an effect on the filesystem
Op(line, reads, op) == [line |-> line, kind |-> "py", reads |-> reads, defs |-> {}, op |-> op]
\* the call of generate_images
Call(line, reads) == [line |-> line, kind |-> "call", reads |-> reads, defs |-> {}, op |-> ""]

DiffusionCells ==
  << << Magic(47, {}) >>,
     << Py(73, {}, {"notebook_login"}), Py(76, {"notebook_login"}, {}) >>,
     << Py(108, {}, {"torch"}), Py(109, {}, {"StableDiffusionPipeline"}),
        Py(111, {"StableDiffusionPipeline", "torch"}, {"pipeline"}),
        Py(115, {"pipeline"}, {"pipeline"}) >>,
     << Py(146, {}, {"os"}), Py(148, {}, {"Image", "display"}),
        Py(151, {}, {"generate_images"}) >>,
     << Call(184, {"generate_images"}) >>,
     << Py(268, {}, {"os"}), Py(269, {"os"}, {"HOME"}) >>,
     << Py(291, {}, {"Roboflow"}), Py(292, {}, {"glob"}), Py(293, {}, {"os"}),
        Py(296, {"os", "HOME"}, {"image_dir"}), Py(297, {}, {"file_extension_type"}),
        Py(300, {"Roboflow"}, {"rf"}), Py(301, {"rf"}, {"upload_project"}),
        Py(304, {"glob", "image_dir", "file_extension_type"}, {"image_glob"}),
        Py(307, {"image_glob"}, {}),
        Body(308, {"upload_project", "image_glob"}, {"image"}) >> >>

\* mutant: the pipeline is looked up whether or not the loop iterates
GenerateImagesBodyAlwaysLoops(a) ==
  << Op(161, {"os"}, "makedirs"), Op(164, {"pipeline"}, "pipeline") >>

\* the statements of generate_images that read a global, as a call with
\* arguments a reaches them
GenerateImagesBody(a) ==
  << Op(161, {"os"}, "makedirs") >>
  \o (IF NumIterations(a.num_images_to_generate, a.num_images_per_prompt) >= 1
      THEN << Op(164, {"pipeline"}, "pipeline"), Op(169, {}, "save") >>
           \o (IF a.display_images THEN << Py(171, {"display", "Image"}, {}) >> ELSE << >>)
      ELSE << >>)

Yolov7Cells ==
  << << Magic(81, {}) >>,
     << Py(104, {}, {"os"}), Py(105, {"os"}, {"HOME"}), Magic(108, {}), Magic(109, {}),
        Magic(110, {}), Magic(111, {}) >>,
     << Magic(131, {}) >>,
     << Py(331, {}, {"Roboflow"}), Py(332, {"Roboflow"}, {"rf"}), Py(333, {"rf"}, {"project"}),
        Py(334, {"project"}, {"dataset"}) >>,
     << Magic(359, {"HOME"}), Magic(360, {}) >>,
     << Magic(372, {"HOME"}), Magic(373, {"dataset"}) >>,
     << Magic(398, {"HOME"}), Py(401, {"os"}, {"EXP_DIR"}), Magic(403, {"EXP_DIR", "dataset"}) >>,
     << Py(431, {}, {"glob"}), Py(432, {}, {"Image", "display"}), Py(435, {"os"}, {"EXP_DIR"}),
        Py(437, {}, {"i"}), Py(438, {}, {"limit"}), Py(439, {"glob", "HOME", "EXP_DIR"}, {}),
        Body(440, {"i", "limit", "display", "Image"}, {"imageName", "i"}) >>,
     << Magic(468, {}), Magic(469, {}), Magic(470, {}) >>,
     << >>,
     << >> >>

Yolov5Cells ==
  << << Magic(55, {}) >>,
     << Py(78, {}, {"os"}), Py(79, {"os"}, {"HOME"}), Py(80, {"HOME"}, {}) >>,
     << Magic(96, {}), Magic(97, {}), Magic(98, {}) >>,
     << Magic(114, {}), Py(115, {}, {"torch"}), Py(117, {}, {"Image", "clear_output"}),
        Py(118, {}, {"attempt_download"}), Py(121, {"torch"}, {}) >>,
     << Magic(141, {}) >>,
     << Magic(350, {"HOME"}), Magic(352, {}), Py(354, {}, {"Roboflow"}),
        Py(355, {"Roboflow"}, {"rf"}), Py(356, {"rf"}, {"project"}),
        Py(357, {"project"}, {"dataset"}) >>,
     << Magic(373, {"dataset"}) >>,
     << Py(398, {}, {"yaml"}), Py(399, {"dataset"}, {"stream"}), Py(400, {"yaml"}, {"num_classes"}) >>,
     << Magic(416, {"HOME"}) >>,
     << Py(428, {}, {"register_line_cell_magic"}),
        Py(430, {"register_line_cell_magic"}, {"writetemplate"}) >>,
     << Py(444, {"writetemplate"}, {}), Magic(444, {"HOME"}), Py(433, {"num_classes"}, {}) >>,
     << Magic(534, {"HOME"}), Magic(535, {"dataset"}) >>,
     << Py(571, {}, {"plot_results"}), Py(572, {"Image", "HOME"}, {}) >>,
     << Py(604, {"Image", "HOME"}, {}) >>,
     << Py(622, {"Image", "HOME"}, {}) >>,
     << Magic(648, {}) >>,
     << Magic(663, {}) >>,
     << Magic(680, {"HOME"}), Magic(681, {"dataset"}) >>,
     << Py(695, {}, {"glob"}), Py(696, {}, {"Image", "display"}), Py(698, {"glob", "HOME"}, {}),
        Body(699, {"display", "Image"}, {"imageName"}) >> >>

Notebooks == { "diffusion", "yolov7", "yolov5" }

Cells(nb) ==
  CASE nb = "diffusion" -> DiffusionCells
    [] nb = "yolov7" -> Yolov7Cells
    [] nb = "yolov5" -> Yolov5Cells

HasCall(cell) == \E j \in DOMAIN cell : cell[j].kind = "call"

RECURSIVE Expand(_, _)
\* the cell's statements with the called function's in the place of the call
Expand(cell, a) ==
  IF cell = << >> THEN << >>
  ELSE (IF Head(cell).kind = "call"
        THEN << Py(Head(cell).line, Head(cell).reads, {}) >> \o GenerateImagesBody(a)
        ELSE << Head(cell) >>) \o Expand(Tail(cell), a)

\* the statements a run goes through: a loop body only if the loop iterates
Reached(cell, a, iterates) ==
  SelectSeq(Expand(cell, a), LAMBDA s : s.kind # "body" \/ iterates)

\* the namespace before statement n of a cell that started with d
DefinedBefore(stmts, d, n) == d \cup UNION { stmts[j].defs : j \in 1..(n - 1) }

Unbound(stmts, d, n) == stmts[n].reads \ DefinedBefore(stmts, d, n)

RaisesNameError(stmts, d, n) == stmts[n].kind # "magic" /\ Unbound(stmts, d, n) # {}

Least(S) == CHOOSE x \in S : \A y \in S : x <= y

\* the first statement that raises NameError, 0 if none does
FirstNameError(stmts, d) ==
  LET raising == { n \in DOMAIN stmts : RaisesNameError(stmts, d, n) }
  IN IF raising = {} THEN 0 ELSE Least(raising)
\* the files of a call whose every pipeline call returned num_images_per_prompt images
Saved(f, wd, a) ==
  LET b == a.num_images_per_prompt
      made == (0..(NumIterations(a.num_images_to_generate, b) - 1)) \X (0..(b - 1))
      KeyOf(p) == Key(wd, ImageName(a.output_dir, p[1], b, p[2]))
  IN [x \in DOMAIN f \cup { KeyOf(p) : p \in made } |->
        IF \E p \in made : KeyOf(p) = x
        THEN FileEntry(CHOOSE p \in made : KeyOf(p) = x)
        ELSE f[x]]

Effect(s, f, wd, a) ==
  CASE s.op = "makedirs" -> MakeDirs(f, Key(wd, a.output_dir))
    [] s.op = "save" -> Saved(f, wd, a)
    [] OTHER -> f

RECURSIVE Effects(_, _, _, _, _)
\* the filesystem after the first n statements
Effects(stmts, n, f, wd, a) ==
  IF n = 0 THEN f ELSE Effect(stmts[n], Effects(stmts, n - 1, f, wd, a), wd, a)

\* os.makedirs raising at statement n
MakeDirsRaisesAt(stmts, n, f, wd, a) ==
  stmts[n].op = "makedirs" /\ MakeDirsRaises(f, Key(wd, a.output_dir))

\* what running the statements stmts of cell k does, `named` the first of
\* them to raise NameError and `stop` the first to raise at all, 0 for none
RunStatements(k, a, stmts, named, stop) ==
  LET done == IF stop = 0 THEN Len(stmts) ELSE stop - 1
  IN /\ cellNo' = k
     /\ definedAtCall' = defined
     /\ fsAtCall' = fs
     /\ defined' = DefinedBefore(stmts, defined, done + 1)
     /\ fs' = Effects(stmts, done, fs, cwd, a)
     /\ status' = IF stop = 0 THEN "ok"
                  ELSE IF stop = named THEN "NameError"
                  ELSE "makedirs"
     /\ raisedAt' = IF stop # 0 /\ stop = named THEN stmts[stop].line ELSE 0
     /\ cursor' = IF cursor = k - 1 /\ stop = 0 THEN k ELSE -1
     /\ args' = a

\* The operator runs cell k.
RunCell(k, a, iterates) ==
  /\ pc = "idle"
  /\ lastCell' = IF HasCall(Cells(notebook)[k]) THEN "generate" ELSE "cell"
  /\ \E stmts \in { Reached(Cells(notebook)[k], a, iterates) } :
       \E named \in { FirstNameError(stmts, defined) } :
         LET stops == { n \in DOMAIN stmts :
                          n = named \/ MakeDirsRaisesAt(stmts, n, fs, cwd, a) }
         IN RunStatements(k, a, stmts, named, IF stops = {} THEN 0 ELSE Least(stops))
  /\ UNCHANGED << cwd, HOME, pc, genLocals, genLogs, inFlight, uploadState, genRuns,
                  rerunLogs, yoloState, notebook >>

\* the call as the cell makes it, the two numbers as a reader sets them
CallArgs ==
  { [prompt |-> c.prompt, num_images_to_generate |-> total, num_images_per_prompt |-> batch,
     guidance_scale |-> c.guidance_scale, output_dir |-> GeneratedImages,
     display_images |-> TRUE] :
      c \in { x \in Callers : x.guidance_scale = CellGuidanceScale },
      total \in 0..MaxTotal, batch \in BatchSizes }

RunPlainCell ==
  \E k \in DOMAIN Cells(notebook), iterates \in BOOLEAN :
    /\ ~HasCall(Cells(notebook)[k])
    /\ RunCell(k, args, iterates)

RunCallCell ==
  \E k \in DOMAIN Cells(notebook), a \in CallArgs :
    /\ HasCall(Cells(notebook)[k])
    /\ RunCell(k, a, TRUE)

InitCells ==
  /\ notebook \in Notebooks
  /\ cwd \in WorkDirs
  /\ \E mode \in { "absent", "file", "dir" } :
       /\ notebook # "diffusion" => mode = "absent"
       /\ fs = InitialFs(cwd, mode, {})
  /\ FreshKernel

NextCells ==
  \/ RunPlainCell
  \/ RunCallCell

SpecCells == InitCells /\ [][NextCells]_vars
\* ------------------------------------------------------------------ claims
Range(q) == { q[j] : j \in DOMAIN q }
Sum(q) == IF q = << >> THEN 0 ELSE LET F[n \in 0..Len(q)] == IF n = 0 THEN 0 ELSE F[n - 1] + q[n] IN F[Len(q)]

GenReturned == pc = "idle" /\ lastCell = "generate" /\ status = "ok"
GenRaisedIn(calls) == pc = "idle" /\ lastCell = "generate" /\ status \in calls
UploadDone == pc = "idle" /\ lastCell = "upload" /\ status = "ok"

Total == args.num_images_to_generate
Batch == args.num_images_per_prompt
OutKey == Key(cwd, args.output_dir)
FilesIn(f, k) == { x \in DOMAIN f : Len(x) > 0 /\ Parent(x) = k /\ f[x].kind = "file" }
EntriesIn(f, k) == { x \in DOMAIN f : Len(x) > 0 /\ Parent(x) = k }

InitiallyEmpty == EntriesIn(fsAtCall, OutKey) = {}
AllExact == \A j \in DOMAIN returned : returned[j] = Batch
AtMostBatch == \A j \in DOMAIN returned : returned[j] <= Batch
UploadedKeys == { Key(cwd, uploads[j].image) : j \in DOMAIN uploads }

\* C1: a returned generate_images(prompt, N, b) into an initially empty output
\* directory, every pipeline call having returned exactly b images, leaves
\* exactly N image files in the directory.
C1_ExactlyTotalFiles ==
  (GenReturned /\ InitiallyEmpty /\ AllExact)
    => Cardinality(FilesIn(fs, OutKey)) = Total

\* C2: a generate_images(prompt, N, b) that returns has called the pipeline
\* exactly floor(N / b) times, each time with num_images_per_prompt = b and the
\* caller's prompt and guidance_scale; it made no call when N < b.
C2_PipelineCalls ==
  GenReturned =>
    /\ Len(pipelineCalls) * Batch <= Total
    /\ Total < (Len(pipelineCalls) + 1) * Batch
    /\ Total < Batch => pipelineCalls = << >>
    /\ \A j \in DOMAIN pipelineCalls :
         /\ pipelineCalls[j].num_images_per_prompt = Batch
         /\ pipelineCalls[j].prompt = args.prompt
         /\ pipelineCalls[j].guidance_scale = args.guidance_scale

C2_Witness ==
  /\ GenReturned
  /\ Len(pipelineCalls) = 2
  /\ Batch = 2
  /\ args.guidance_scale = 4

\* C3: within one generate_images call every image every pipeline call
\* returned is saved, and when each pipeline call returned at most
\* num_images_per_prompt images no file name is written twice.
C3_AllSavedNoOverwrite ==
  /\ GenReturned =>
       \A j \in DOMAIN returned : \A x \in 0..(returned[j] - 1) :
         Cardinality({ n \in DOMAIN saves : saves[n].image = << j - 1, x >> }) = 1
  /\ (lastCell = "generate" /\ AtMostBatch) =>
       \A m, n \in DOMAIN saves : m # n => saves[m].name # saves[n].name

C3_Witness ==
  /\ GenReturned
  /\ AtMostBatch
  /\ Len(returned) >= 2
  /\ Len(saves) >= 3

\* C4: a completed upload cell has called upload exactly once for each path of
\* the list glob returned and for no other path, every call with
\* num_retry_uploads = 3.
C4_UploadOncePerPath ==
  /\ \A j \in DOMAIN uploads : uploads[j].num_retry_uploads = 3
  /\ UploadDone =>
       /\ \A p \in Range(image_glob) :
            Cardinality({ j \in DOMAIN uploads : uploads[j].image = p }) = 1
       /\ \A j \in DOMAIN uploads : uploads[j].image \in Range(image_glob)

C4_Witness == UploadDone /\ Len(image_glob) >= 2 /\ Len(uploads) >= 2

\* C5: when the upload cell completes, every file generate_images saved under
\* its default output_dir has been passed to upload.
C5_SavedAreUploaded ==
  UploadDone =>
    \A e \in everSaved : e.dir = GeneratedImages => e.key \in UploadedKeys

C5_Witness ==
  /\ UploadDone
  /\ Cardinality({ e \in everSaved : e.dir = GeneratedImages }) >= 2

PngSuffix == << ".", "png" >>
HomeGenerated == Key(cwd, HOME \o GeneratedImages)

\* C6 as stated: the uploaded paths are exactly the files directly in
\* HOME/generated_images whose names end in ".png".
C6_Original ==
  UploadDone =>
    UploadedKeys = { x \in FilesIn(fs, HomeGenerated) : EndsWith(Last(x), PngSuffix) }

\* C6 amended: the uploaded paths are exactly the entries (files and
\* directories) directly in HOME/generated_images whose names end in ".png"
\* and do not begin with "."; entries of another suffix, hidden entries and
\* entries of subdirectories are never uploaded.
C6_Amended ==
  UploadDone =>
    UploadedKeys = { x \in EntriesIn(fs, HomeGenerated) :
                       EndsWith(Last(x), PngSuffix) /\ Last(x)[1] # "." }

C6_Witness ==
  /\ UploadDone
  /\ Len(uploads) >= 2
  /\ HomeGenerated \o << HiddenPng >> \in DOMAIN fs
  /\ HomeGenerated \o << CropsPng, DeepPng >> \in DOMAIN fs
  /\ \E e \in everSaved : e.key \in UploadedKeys

\* C7: after generate_images returns the output directory exists, also when
\* floor(N / b) = 0; an output directory that already exists is not an error.
C7_OutputDirExists ==
  /\ GenReturned => IsDir(fs, OutKey)
  /\ (lastCell = "generate" /\ IsDir(fsAtCall, OutKey)) => status # "makedirs"

C7_Witness ==
  /\ GenReturned
  /\ Total < Batch
  /\ ~Exists(fsAtCall, OutKey)
  /\ IsDir(fs, OutKey)

NewCellStarts == genRuns' # genRuns \/ uploadRuns' # uploadRuns
GenFailure == { "pipeline", "save" }
RaiseStep == lastCell = "generate" /\ status = "running" /\ status' \in GenFailure
SavedKey(n) == Key(cwd, saves[n].name)

NoFurtherCallOrSave ==
  (lastCell = "generate" /\ status \in GenFailure /\ ~NewCellStarts)
    => pc' = "idle" /\ pipelineCalls' = pipelineCalls /\ saves' = saves /\ fs' = fs

\* C8 as stated: a pipeline call or save that raises ends generate_images with
\* the exception, no further pipeline call or save follows, and every file
\* saved before the failure is on disk unchanged.
C8_Original ==
  [][ /\ RaiseStep =>
           /\ pc' = "idle"
           /\ pipelineCalls' = pipelineCalls
           /\ saves' = saves
           /\ \A n \in DOMAIN saves :
                SavedKey(n) \in DOMAIN fs' /\ fs'[SavedKey(n)] = fs[SavedKey(n)]
      /\ NoFurtherCallOrSave ]_vars

\* C8 amended: as stated, for every file saved before the failure under a name
\* other than the one the failing save was writing; that one file may be left
\* truncated.
C8_Amended ==
  [][ /\ RaiseStep =>
           /\ pc' = "idle"
           /\ pipelineCalls' = pipelineCalls
           /\ saves' = saves
           /\ \A n \in DOMAIN saves :
                /\ SavedKey(n) \in DOMAIN fs'
                /\ (status' = "save" /\ saves[n].name = image_name)
                     \/ fs'[SavedKey(n)] = fs[SavedKey(n)]
      /\ NoFurtherCallOrSave ]_vars

C8_Witness ==
  /\ GenRaisedIn({ "save" })
  /\ Len(saves) >= 2
  /\ Len(pipelineCalls) = 2
  /\ Total > 2 * Batch
  /\ \E x \in FilesIn(fs, OutKey) : fs[x].data = Partial

UploadRaised == lastCell = "upload" /\ status = "upload"

\* C9: when upload raises for the k-th matched file the loop stops: upload was
\* called once for each of the first k files and is not called again, and the
\* progress lines are those of the first k - 1 files.
C9_UploadStopsAtFailure ==
  /\ [](UploadRaised =>
          /\ pc = "idle"
          /\ pos \in DOMAIN image_glob
          /\ Len(uploads) = pos
          /\ \A j \in 1..pos : uploads[j].image = image_glob[j]
          /\ Cardinality({ j \in DOMAIN uploads : uploads[j].image = image_glob[pos] }) = 1
          /\ Len(printed) = pos - 1
          /\ \A j \in 1..(pos - 1) : printed[j].image = image_glob[j])
  /\ [][(UploadRaised /\ ~NewCellStarts) => uploads' = uploads /\ printed' = printed]_vars

C9_Witness == UploadRaised /\ pc = "idle" /\ pos = 2 /\ Len(image_glob) = 3

\* C10: at most one external call is in progress at any time; a pipeline call
\* starts only when every image the earlier pipeline calls returned has been
\* saved; an upload starts only when every earlier upload has returned.
C10_Sequential ==
  /\ [](Len(inFlight) <= 1)
  /\ [][ /\ Len(pipelineCalls') > Len(pipelineCalls) =>
              /\ inFlight = << >>
              /\ Len(returned) = Len(pipelineCalls)
              /\ Len(saves) = Sum(returned)
         /\ Len(uploads') > Len(uploads) =>
              /\ inFlight = << >>
              /\ Len(printed) = Len(uploads) ]_vars

C10_Witness ==
  /\ inFlight = << "pipeline" >>
  /\ Len(pipelineCalls) = 2
  /\ Len(saves) >= 2

\* C11: the upload calls are issued in the order of the glob list, and the
\* progress line of a file is printed after that file's upload has returned
\* and before the upload of the next file starts: while the j-th upload is
\* in flight (or has raised) exactly the lines of the j-1 files before it
\* are printed, and otherwise there is one line per upload made
InUploadLoop == lastCell = "upload" /\ status \in { "running", "ok", "upload" }

C11_UploadOrder ==
  InUploadLoop =>
    /\ Len(uploads) <= Len(image_glob)
    /\ \A j \in 1..Len(uploads) : uploads[j].image = image_glob[j]
    /\ \A j \in 1..Len(printed) : printed[j].image = image_glob[j]
    /\ (pc = "upload" \/ status = "upload") => Len(printed) = Len(uploads) - 1
    /\ (pc # "upload" /\ status # "upload") => Len(printed) = Len(uploads)

C11_Witness ==
  /\ lastCell = "upload"
  /\ pc = "upload"
  /\ Len(image_glob) = 3
  /\ Len(uploads) = 3
  /\ Len(printed) = 2
  /\ image_glob[1] # image_glob[3]

\* C12: with display_images = True every generated image is displayed exactly
\* once and only after it was saved (the n-th display shows the file of the
\* n-th save, which then holds that image, and a returned call has displayed
\* every image the pipeline returned once); with display_images = False no
\* display call is made
C12_DisplayAfterSave ==
  lastCell = "generate" =>
    /\ ~args.display_images => displays = << >>
    /\ args.display_images =>
         /\ Len(displays) = Len(saves) - (IF pc = "gen_display" THEN 1 ELSE 0)
         /\ \A n \in DOMAIN displays : displays[n] = saves[n].name
         /\ pc = "display" =>
              fs[Key(cwd, displays[Len(displays)])] = FileEntry(saves[Len(displays)].image)
         /\ GenReturned =>
              \A j \in DOMAIN returned : \A x \in 0..(returned[j] - 1) :
                Cardinality({ n \in DOMAIN displays : saves[n].image = << j - 1, x >> }) = 1

C12_Witness ==
  /\ GenReturned
  /\ args.display_images
  /\ Len(returned) = 2
  /\ Len(displays) = 4

\* C15: when every pipeline call returns exactly num_images_per_prompt images
\* the files a returned generate_images(prompt, N, b) has written are exactly
\* output_dir/image_k.png for 0 <= k < floor(N / b) * b: the idx-th image of
\* iteration i goes to k = i * b + idx, so the n-th file written is image_(n-1)
\* and the numbering is contiguous from 0
ImageFile(k) == << "image_" >> \o Str(k) \o << ".", "png" >>

C15_ContiguousNames ==
  (lastCell = "generate" /\ AllExact) =>
    /\ \A n \in DOMAIN saves :
         /\ Key(cwd, saves[n].name) = Append(OutKey, ImageFile(n - 1))
         /\ n - 1 = (saves[n].image[1] * Batch) + saves[n].image[2]
    /\ GenReturned =>
         { Key(cwd, saves[n].name) : n \in DOMAIN saves }
           = { Append(OutKey, ImageFile(k)) : k \in 0..(((Total \div Batch) * Batch) - 1) }

C15_Witness ==
  /\ GenReturned
  /\ AllExact
  /\ Batch = 2
  /\ Len(returned) = 2
  /\ Len(saves) = 4
  /\ args.output_dir = OtherOutputDir

\* C16: generate_images creates or overwrites only files image_k.png of
\* output_dir with 0 <= k < floor(N / b) * b, deletes nothing and leaves every
\* other file as it was when the call started (the directories os.makedirs
\* makes for output_dir aside); the upload cell leaves the local files as
\* they were when it started
AllowedFiles == { Append(OutKey, ImageFile(k)) : k \in 0..(((Total \div Batch) * Batch) - 1) }

GenerateFrame ==
  /\ \A x \in DOMAIN fsAtCall :
       /\ x \in DOMAIN fs
       /\ fs[x] # fsAtCall[x] => (x \in AllowedFiles /\ fsAtCall[x].kind = "file")
  /\ \A x \in DOMAIN fs \ DOMAIN fsAtCall :
       IF fs[x].kind = "file" THEN x \in AllowedFiles ELSE x \in Prefixes(OutKey)

UploadFrame == lastCell = "upload" => fs = fsAtCall

C16_Original ==
  /\ lastCell = "generate" => GenerateFrame
  /\ UploadFrame

\* C16 as it holds: the same, for calls whose pipeline calls each returned at
\* most num_images_per_prompt images
C16_Amended ==
  /\ (lastCell = "generate" /\ AtMostBatch) => GenerateFrame
  /\ UploadFrame

C16_Witness ==
  /\ GenReturned
  /\ AtMostBatch
  /\ ~InitiallyEmpty
  /\ HOME # Undefined
  /\ Len(saves) = 4

\* C17: between cells, after any sequence of generate_images calls that ran
\* to their end into the same directory, empty at first, each pipeline call
\* having returned exactly its b images, the directory holds exactly
\* image_0.png .. image_(m-1).png with m the largest floor(N / b) * b of the
\* calls made so far (a later smaller call leaves the files of an earlier
\* larger one), and an upload cell run after them uploads all m
Written(call) == (call.num_images_to_generate \div call.num_images_per_prompt)
                   * call.num_images_per_prompt
MostWritten == CHOOSE m \in { Written(genCalls[n]) : n \in DOMAIN genCalls } :
                 \A n \in DOMAIN genCalls : Written(genCalls[n]) <= m
DefaultDirKey == Key(cwd, GeneratedImages)

C17_RerunsKeepFiles ==
  (pc = "idle" /\ genCalls # << >>) =>
    /\ EntriesIn(fs, DefaultDirKey)
         = { Append(DefaultDirKey, ImageFile(k)) : k \in 0..(MostWritten - 1) }
    /\ \A x \in EntriesIn(fs, DefaultDirKey) : fs[x].kind = "file"
    /\ UploadDone => UploadedKeys = EntriesIn(fs, DefaultDirKey)

C17_Witness ==
  /\ UploadDone
  /\ Len(genCalls) = 2
  /\ Written(genCalls[1]) = 3
  /\ Written(genCalls[2]) = 2
  /\ Len(uploads) = 3

\* C18: the upload cell keeps no record of what it uploaded: when it has run
\* to its end r times over a directory that stayed as it was, with n matching
\* files, upload was called exactly r times for each of them, r * n times in
\* all
TimesUploaded(p) ==
  Sum([r \in DOMAIN uploadLog |->
         Cardinality({ n \in DOMAIN uploadLog[r] : uploadLog[r][n] = p })])

C18_UploadsRepeat ==
  (pc = "idle" /\ uploadLog # << >> /\ uploadsDone = Len(uploadLog)) =>
    LET matching == GlobSet(fs, cwd, GlobPattern(HOME))
    IN /\ \A p \in matching : TimesUploaded(p) = uploadsDone
       /\ Sum([r \in DOMAIN uploadLog |-> Len(uploadLog[r])])
            = uploadsDone * Cardinality(matching)

C18_Witness ==
  /\ pc = "idle"
  /\ uploadsDone = 2
  /\ Len(uploadLog) = 2
  /\ Len(uploadLog[1]) = 3
  /\ uploadLog[1] # uploadLog[2]

\* C13: in the YOLOv7 notebook, whenever the run directories under runs/train
\* (evaluation cell) or runs/detect (display cell) are a non-empty set of
\* exp, exp2, ..., expK, the EXP_DIR the cell computes is the one of the
\* largest number, the bare exp being the smallest and the numbers compared
\* as integers (exp10 wins over exp9)
MaxSuffix == 12
RunDirs(runs) == ListDir(fs, Key(cwd, runs))
AllExpDirs(names) == names # {} /\ \A x \in names : \E n \in 1..MaxSuffix : x = ExpName(n)
LargestOf(names, x) ==
  \E n \in 1..MaxSuffix :
    /\ x = ExpName(n)
    /\ \A k \in 1..MaxSuffix : ExpName(k) \in names => k <= n

C13_ExpDirMostRecent ==
  /\ (lastCell = "evaluate" /\ AllExpDirs(RunDirs(RunsTrain)))
       => (status = "ok" /\ LargestOf(RunDirs(RunsTrain), EXP_DIR))
  /\ (lastCell = "display" /\ AllExpDirs(RunDirs(RunsDetect)))
       => (status \in { "ok", "NameError" } /\ LargestOf(RunDirs(RunsDetect), EXP_DIR))

C13_Witness ==
  /\ lastCell = "evaluate"
  /\ status = "ok"
  /\ EXP_DIR = ExpName(10)
  /\ { ExpName(1), ExpName(2), ExpName(9) } \subseteq RunDirs(RunsTrain)

\* C14: the YOLOv7 display loop displays at most limit images: of the m .jpg
\* files the glob matched it displays exactly min(m, limit), each once at
\* most, and they are the first ones of the glob list, in its order
C14_DisplayLimit ==
  (lastCell = "display" /\ status = "ok") =>
    /\ Len(shown) = (IF Len(listed) < limit THEN Len(listed) ELSE limit)
    /\ shown = SubSeq(listed, 1, Len(shown))
    /\ \A a, b \in DOMAIN shown : a # b => shown[a] # shown[b]
    /\ \A a \in DOMAIN listed : EndsWith(Last(listed[a]), JpgSuffix)

C14_Witness ==
  /\ lastCell = "display"
  /\ status = "ok"
  /\ Len(listed) = 3
  /\ limit = 2
  /\ Len(shown) = 2

\* C19: after any number of YOLOv7 training runs, the best.pt the export cell
\* archives is the one of the training run directory the evaluation cell
\* selected with EXP_DIR (the most recent run)
C19_ExportMatchesEvaluation ==
  (lastCell = "export" /\ lastDetect # Undefined
     /\ Exists(fs, Key(cwd, lastDetect.weights))) =>
    { x \in zipped : Last(x) = BestPt } = { Key(cwd, lastDetect.weights) }

\* C20: in the YOLOv5 notebook (its cells run in the notebook's order, so
\* that the kernel is in HOME/yolov5), when the detect cell has run and the
\* display cell runs after it, the display cell displays every .jpg of the
\* run directory that detection produced, each exactly once, however many
\* detections ran before
C20_DisplayShowsLastDetection ==
  (lastCell = "display" /\ status = "ok" /\ lastDetect # Undefined
     /\ lastDetect.out # Undefined /\ cwd = Concat(HOME, << <<>>, Yolov5 >>)) =>
    /\ { Key(cwd, shown[a]) : a \in DOMAIN shown }
         = { x \in DOMAIN fs : /\ Len(x) > 0
                               /\ Parent(x) = lastDetect.out
                               /\ EndsWith(Last(x), JpgSuffix) }
    /\ \A a, b \in DOMAIN shown : a # b => shown[a] # shown[b]

\* C23: every progress line of the upload loop carries len(image_glob), the
\* number of matched files, the same in every line; one line is printed for
\* each upload that returned, so a run that completes has printed n lines
\* for its n files
C23_ProgressLines ==
  InUploadLoop =>
    /\ \A j \in DOMAIN printed : printed[j].count = Len(image_glob)
    /\ Len(printed) = pos - 1
    /\ Len(image_glob) = Cardinality(GlobSet(fs, cwd, GlobPattern(HOME)))
    /\ UploadDone => Len(printed) = Len(image_glob)

C23_Witness ==
  /\ UploadDone
  /\ Len(printed) = 3
  /\ printed[1].count = 3
  /\ printed[3].count = 3

\* C21: after the YOLOv5 cells that read data.yaml and write the model
\* template have run, the nc value of models/custom_yolov5s.yaml is the nc
\* value of the downloaded dataset's data.yaml and the rest of the file is
\* the template's text as it stands in the cell; nothing of what the file
\* held before is left
TemplateKey == Key(cwd, TemplateTarget(HOME))
DatasetNc == SafeLoadNc(fs[Key(cwd, DataYamlPath(dataset.location))].data)

C21_TemplateNc ==
  (lastCell = "template" /\ status = "ok") =>
    /\ dataset # Undefined
    /\ Exists(fs, Key(cwd, DataYamlPath(dataset.location)))
    /\ fs[TemplateKey] = FileEntry(<< TemplateHead >> \o Str(DatasetNc) \o << TemplateRest >>)
    /\ IntOf(SubSeq(fs[TemplateKey].data, 2, Len(fs[TemplateKey].data) - 1)) = DatasetNc

C21_Witness ==
  /\ lastCell = "template"
  /\ status = "ok"
  /\ DatasetNc = 12
  /\ Exists(fsAtCall, TemplateKey)
  /\ fsAtCall[TemplateKey].data = << TemplateHead >> \o Str(StockClasses) \o << TemplateRest >>

\* C22: when the template cell names a field that is no global variable
\* (num_classes before the data.yaml cell ran), writetemplate raises; where
\* the target could be opened for writing the raise comes from the
\* substitution, after the open, and the file is left existing and empty,
\* whatever it held before
C22_FailedTemplateEmptiesFile ==
  (lastCell = "template" /\ writetemplate /\ num_classes = Undefined) =>
    /\ status # "ok"
    /\ OpenOutcome(fsAtCall, TemplateKey) = "ok" =>
         /\ status = "KeyError"
         /\ Exists(fs, TemplateKey)
         /\ fs[TemplateKey] = FileEntry(EmptyText)

C22_Witness ==
  /\ lastCell = "template"
  /\ status = "KeyError"
  /\ Exists(fsAtCall, TemplateKey)
  /\ fsAtCall[TemplateKey].data # EmptyText
  /\ fs[TemplateKey].data = EmptyText

\* the cells run so far are the notebook's first ones, once each, in order,
\* none failed, and there is a next one
InOrder == cursor >= 0 /\ cursor < Len(Cells(notebook))

\* the statements of the next cell, loop bodies included, for every call it
\* may make
NextStatements ==
  LET cell == Cells(notebook)[cursor + 1]
  IN IF HasCall(cell) THEN { Expand(cell, a) : a \in CallArgs } ELSE { Expand(cell, args) }

BoundByEarlierCells(stmts, n) == stmts[n].reads \subseteq defined

BoundEarlier(stmts, n) ==
  stmts[n].reads \subseteq (defined \cup UNION { stmts[j].defs : j \in 1..(n - 1) })

PipelineLine == 164

\* generate_images called with the function defined and pipeline not: it
\* raises NameError exactly when os.makedirs went through and the loop has an
\* iteration, at the pipeline call, the directory made and nothing saved
CallBeforePipelineCell ==
  (notebook = "diffusion" /\ lastCell = "generate" /\ cellNo # 0
     /\ "generate_images" \in definedAtCall /\ "pipeline" \notin definedAtCall) =>
    LET key == Key(cwd, args.output_dir)
        loops == NumIterations(args.num_images_to_generate, args.num_images_per_prompt) >= 1
    IN /\ (status = "NameError") <=> (loops /\ ~MakeDirsRaises(fsAtCall, key))
       /\ status = "NameError" =>
            /\ raisedAt = PipelineLine
            /\ IsDir(fs, key)
            /\ fs = MakeDirs(fsAtCall, key)
       /\ (~loops /\ ~MakeDirsRaises(fsAtCall, key)) => status = "ok"

\* C24 as stated: after a notebook's first cells ran once each, top to
\* bottom, without failure, every name a statement of the next cell reads was
\* bound by one of those earlier cells; and generate_images called before
\* the pipeline cell fails at the first pipeline call, the output directory
\* made, exactly when floor(N / b) >= 1.
C24_Original ==
  /\ InOrder => \A stmts \in NextStatements : \A n \in DOMAIN stmts : BoundByEarlierCells(stmts, n)
  /\ CallBeforePipelineCell

\* C24, amended: after a notebook's first cells ran once each, top to bottom,
\* without failure, every name a statement of the next cell reads was bound
\* by one of those earlier cells or by an earlier statement of the same cell;
\* and generate_images called before the pipeline cell fails at the first
\* pipeline call, the output directory made, exactly when floor(N / b) >= 1.
C24_DefinedBeforeUse ==
  /\ InOrder => \A stmts \in NextStatements : \A n \in DOMAIN stmts : BoundEarlier(stmts, n)
  /\ CallBeforePipelineCell

C24_Witness ==
  /\ notebook = "yolov7"
  /\ cursor = Len(Yolov7Cells)
  /\ status = "ok"
  /\ { "HOME", "dataset", "EXP_DIR", "Image", "display", "os" } \subseteq defined

====
